---- MODULE Spec2Model ----
(***************************************************************************)
(* Order placement, status and tracking updates and cancellation of the   *)
(* local-retail platform (backend/src/orders) and the update of a product *)
(* (backend/src/products), over the Product, Order, OrderItem,            *)
(* OrderStatusHistory and CustomerProfile tables.                          *)
(*                                                                         *)
(* The views run without transaction.atomic and the settings do not set   *)
(* ATOMIC_REQUESTS, so every ORM statement commits on its own: each       *)
(* action below is one database statement of one request, working on the  *)
(* request's in-memory copies of the rows it has read.  Model.save()      *)
(* writes the whole row from the in-memory copy.                           *)
(*                                                                         *)
(* Money is kept in cents; unrounded Decimal intermediates are kept in    *)
(* units of 1/10000 and rounded half-even when stored in a                *)
(* DecimalField(decimal_places=2).                                         *)
(***************************************************************************)
EXTENDS Integers, Sequences, FiniteSets, TLC

\* ---------------------------------------------------------------- bounds
MaxStock == 2
MaxRequests == 3
MaxLifeRequests == 4
MaxRequestsConc == 3
MaxShopRequests == 3
MaxMarketRequests == 3
MaxRaceRequests == 4

\* ------------------------------------------------------------- constants
FREE_SHIPPING_FROM == 5000
SHIPPING_FLAT == 499
VAT_PERCENT == 19
DEFAULT_TAX_RATE == 19

Requests == {"r1", "r2"}
Products == {1, 2, 3}
ProductIds == {1, 2, 3, 4}
CustomerUsers == {"alice"}
MerchantUsers == {"bob"}
Users == CustomerUsers \cup MerchantUsers
\* the users of the marketplace besides alice and bob: a second customer, the
\* merchant of a second shop, and a user with neither profile
OtherCustomers == {"carol"}
OtherMerchants == {"mallory"}
Strangers == {"eve"}
AllUsers == Users \cup OtherCustomers \cup OtherMerchants \cup Strangers

STATUS_CHOICES ==
    <<"pending", "confirmed", "processing", "shipped", "delivered",
      "cancelled", "refunded">>

\* a list of valid statuses that lets an undeclared value through
valid_statuses_open == {STATUS_CHOICES[k] : k \in 1..Len(STATUS_CHOICES)} \cup {"bogus"}

valid_statuses == {STATUS_CHOICES[k] : k \in 1..Len(STATUS_CHOICES)}

\* what a client may send as "status": the declared values, none, an unknown one
StatusInputs == valid_statuses \cup {"", "bogus"}

OrderItemInput(p, q) == [product_id |-> p, quantity |-> q]

\* lines that pass field validation when the stock allows: products 1 and 2
GoodItemInputs == {OrderItemInput(p, q) : p \in {1, 2}, q \in {1, 2}}

\* lines that never do: a quantity of 0, an inactive product, an id without a row
BadItemInputs == {OrderItemInput(1, 0), OrderItemInput(3, 1), OrderItemInput(4, 1)}

ItemInputs == GoodItemInputs \cup BadItemInputs

\* the item lists of a request: none, one line, or two lines after a good first line
ItemLists ==
    {<<>>} \cup {<<a>> : a \in ItemInputs}
           \cup {<<a, b>> : a \in GoodItemInputs, b \in ItemInputs}

\* the requests of the interleaved specification: single lines and two-line orders
ConcItemLists ==
    {<<OrderItemInput(1, 1)>>, <<OrderItemInput(2, 1), OrderItemInput(1, 1)>>}

VARIABLES products, orders, items, history, customers, clock, req, resp, nreq, pre

vars == <<products, orders, items, history, customers, clock, req, resp, nreq, pre>>

\* the persisted rows
DB ==
    [products |-> products, orders |-> orders, items |-> items,
     history |-> history, customers |-> customers]

\* ------------------------------------------------------------ arithmetic
\* Decimal.quantize to 2 places, ROUND_HALF_EVEN, of n/d cents (n >= 0, d > 0)
QuantizeDiv(n, d) ==
    LET q == n \div d
        rem == n % d
    IN  IF 2 * rem > d \/ (2 * rem = d /\ q % 2 = 1) THEN q + 1 ELSE q

\* a value in 1/10000 stored in a DecimalField(decimal_places=2), in cents
Quantize2(x4) == QuantizeDiv(x4, 100)

RECURSIVE SumSeq(_)
SumSeq(s) == IF s = <<>> THEN 0 ELSE Head(s) + SumSeq(Tail(s))

\* ------------------------------------------------------------- products
NewProduct(name, sku, stock, price, sale, active) ==
    [name |-> name, sku |-> sku, stock_quantity |-> stock, sales_count |-> 0,
     is_active |-> active, price |-> price, sale_price |-> sale, shop |-> 1]

InitProducts ==
    (1 :> NewProduct("Mug", "MUG-1", 1, 1200, 1000, TRUE)) @@
    (2 :> NewProduct("Lamp", "LAMP-2", MaxStock, 2500, 0, TRUE)) @@
    (3 :> NewProduct("Pen", "PEN-3", MaxStock, 1190, 0, FALSE))

\* a current price that ignores the sale price
current_price_regular(p) == p.price

\* Product.current_price; sale_price 0 stands for None (both are falsy)
current_price(p) ==
    IF p.sale_price # 0 /\ p.sale_price < p.price THEN p.sale_price ELSE p.price

is_in_stock(p) == p.stock_quantity > 0

\* sales_count is a PositiveIntegerField: the table carries CHECK (sales_count >= 0)
\* and Product.save() raises IntegrityError when the row violates it.
ProductSaveFails(p) == p.sales_count < 0

\* --------------------------------------------------------------- orders
NewOrder(user, shop) ==
    [customer |-> user, shop |-> shop, status |-> "pending",
     subtotal |-> 0, tax_amount |-> 0, shipping_cost |-> 0,
     discount_amount |-> 0, tokens_used |-> 0, tokens_value |-> 0, total |-> 0,
     tracking_number |-> "", tracking_url |-> "",
     confirmed_at |-> 0, shipped_at |-> 0, delivered_at |-> 0, cancelled_at |-> 0]

\* a check that lets every order that is not yet delivered be cancelled
can_be_cancelled_until_delivery(o) ==
    o.status \in {"pending", "confirmed", "processing", "shipped"}

\* Order.can_be_cancelled
can_be_cancelled(o) == o.status \in {"pending", "confirmed"}

is_completed(o) == o.status \in {"delivered", "cancelled", "refunded"}

\* a line total that leaves the quantity out
line_total_of_one(unit_price, quantity) == unit_price

\* OrderItem.save: line total, price-inclusive tax, stored with 2 decimal places;
\* the product's name and SKU are copied when the caller gave none
line_total(unit_price, quantity) == unit_price * quantity

\* a tax that is put on top of the line total
ItemTaxAmountOnTop(lt, tax_rate) == QuantizeDiv(lt * tax_rate, 100)

ItemTaxAmount(lt, tax_rate) == QuantizeDiv(lt * tax_rate, 100 + tax_rate)

NewOrderItem(oid, pid, p, unit_price, quantity) ==
    [order |-> oid, product |-> pid, product_name |-> p.name, product_sku |-> p.sku,
     unit_price |-> unit_price,
     quantity |-> quantity, line_total |-> line_total(unit_price, quantity),
     tax_rate |-> DEFAULT_TAX_RATE,
     tax_amount |-> ItemTaxAmount(line_total(unit_price, quantity), DEFAULT_TAX_RATE)]

NewHistory(oid, status, notes, user) ==
    [order |-> oid, status |-> status, notes |-> notes, changed_by |-> user]

\* ------------------------------------------------------------- requests
Idle == [kind |-> "idle", pc |-> "idle"]

\* the response: which endpoint answered, the HTTP status, and for a rejected
\* item list the error and the line it is about
Response(kind, code, error, line) ==
    [kind |-> kind, code |-> code, error |-> error, line |-> line]

NoResponse == Response("none", 0, "", 0)

Init ==
    /\ products = InitProducts
    /\ orders = <<>>
    /\ items = <<>>
    /\ history = <<>>
    /\ customers = [u \in CustomerUsers |-> [total_orders |-> 0, total_spent |-> 0]]
    /\ clock = 0
    /\ req = [r \in Requests |-> Idle]
    /\ resp = [r \in Requests |-> NoResponse]
    /\ nreq = 0
    /\ pre = DB

AllIdle == \A r \in Requests : req[r] = Idle

\* the response is sent: the request is over
Reply(r, code, error, line) ==
    /\ req' = [req EXCEPT ![r] = Idle]
    /\ resp' = [resp EXCEPT ![r] = Response(req[r].kind, code, error, line)]

Finish(r, code) == Reply(r, code, "", 0)

Goto(r, rec) ==
    /\ req' = [req EXCEPT ![r] = rec]
    /\ UNCHANGED resp

\* ======================================================== create an order
\* POST /orders/: OrderViewSet.create -> is_valid() -> serializer.save()
BeginCreate(r, user, its) ==
    /\ req[r] = Idle
    /\ Goto(r, [kind |-> "create", pc |-> "validate_items", user |-> user,
                items |-> its, i |-> 1, cust |-> 0, oid |-> 0, order |-> 0,
                product |-> 0, subtotal |-> 0, total4 |-> 0])
    /\ UNCHANGED <<products, orders, items, history, customers, clock>>

\* validate_items without its first check, the one of the sign of the quantity
ItemErrorAnyQuantity(item) ==
    IF item.product_id \notin Products \/ ~products[item.product_id].is_active
    THEN "not_found"
    ELSE IF ~is_in_stock(products[item.product_id]) THEN "out_of_stock"
    ELSE IF products[item.product_id].stock_quantity < item.quantity THEN "only_n_in_stock"
    ELSE "ok"

\* validate_items without its last check, the comparison of stock and quantity
ItemErrorNoQuantityCheck(item) ==
    IF item.quantity <= 0 THEN "quantity"
    ELSE IF item.product_id \notin Products \/ ~products[item.product_id].is_active
         THEN "not_found"
    ELSE IF ~is_in_stock(products[item.product_id]) THEN "out_of_stock"
    ELSE "ok"

\* the outcome of one round of the loop of validate_items, on the row it reads
ItemError(item) ==
    IF item.quantity <= 0 THEN "quantity"
    ELSE IF item.product_id \notin Products \/ ~products[item.product_id].is_active
         THEN "not_found"
    ELSE IF ~is_in_stock(products[item.product_id]) THEN "out_of_stock"
    ELSE IF products[item.product_id].stock_quantity < item.quantity THEN "only_n_in_stock"
    ELSE "ok"

\* OrderCreateSerializer.validate_items: one round per step (one SELECT each)
ValidateItems(r) ==
    LET q == req[r] IN
    /\ q.pc = "validate_items"
    /\ IF q.items = <<>> THEN Reply(r, 400, "empty", 0)
       ELSE IF ItemError(q.items[q.i]) # "ok"
       THEN Reply(r, 400, ItemError(q.items[q.i]), q.i)
       ELSE IF q.i < Len(q.items)
            THEN Goto(r, [q EXCEPT !.i = q.i + 1])
            ELSE Goto(r, [q EXCEPT !.pc = "get_or_create", !.i = 1])
    /\ UNCHANGED <<products, orders, items, history, customers, clock, nreq, pre>>

\* CustomerProfile.objects.get_or_create(user=request.user)
CreateGetProfile(r) ==
    LET q == req[r] IN
    /\ q.pc = "get_or_create"
    /\ Goto(r, [q EXCEPT !.pc = "create_order", !.cust = customers[q.user]])
    /\ UNCHANGED <<products, orders, items, history, customers, clock, nreq, pre>>

\* Order.objects.create(customer, shop of the first item's product)
CreateOrderRow(r) ==
    LET q == req[r]
        row == NewOrder(q.user, products[q.items[1].product_id].shop)
    IN
    /\ q.pc = "create_order"
    /\ orders' = Append(orders, row)
    /\ Goto(r, [q EXCEPT !.pc = "get_product", !.oid = Len(orders) + 1, !.order = row])
    /\ UNCHANGED <<products, items, history, customers, clock, nreq, pre>>

\* product = Product.objects.get(id=product_id)
CreateGetProduct(r) ==
    LET q == req[r] IN
    /\ q.pc = "get_product"
    /\ Goto(r, [q EXCEPT !.pc = "create_item",
                         !.product = products[q.items[q.i].product_id]])
    /\ UNCHANGED <<products, orders, items, history, customers, clock, nreq, pre>>

\* OrderItem.objects.create(...); subtotal += order_item.line_total
CreateItem(r) ==
    LET q == req[r]
        it == q.items[q.i]
        row == NewOrderItem(q.oid, it.product_id, q.product, current_price(q.product),
                            it.quantity)
    IN
    /\ q.pc = "create_item"
    /\ items' = Append(items, row)
    /\ Goto(r, [q EXCEPT !.pc = "save_product", !.subtotal = q.subtotal + row.line_total])
    /\ UNCHANGED <<products, orders, history, customers, clock, nreq, pre>>

\* a reservation that forgets the sales counter
ReserveStockOnly(p, quantity) ==
    [p EXCEPT !.stock_quantity = p.stock_quantity - quantity]

\* the in-memory product after "stock_quantity -= quantity; sales_count += quantity"
ReserveStock(p, quantity) ==
    [p EXCEPT !.stock_quantity = p.stock_quantity - quantity,
              !.sales_count = p.sales_count + quantity]

\* product.save(), the last statement of the loop over items_data
CreateSaveProduct(r) ==
    LET q == req[r]
        it == q.items[q.i]
        row == ReserveStock(q.product, it.quantity)
    IN
    /\ q.pc = "save_product"
    /\ products' = [products EXCEPT ![it.product_id] = row]
    /\ IF q.i < Len(q.items)
       THEN Goto(r, [q EXCEPT !.pc = "get_product", !.i = q.i + 1, !.product = 0])
       ELSE Goto(r, [q EXCEPT !.pc = "save_order", !.product = 0])
    /\ UNCHANGED <<orders, items, history, customers, clock, nreq, pre>>

\* free shipping only above the threshold
ShippingCostAbove(subtotal) == IF subtotal > FREE_SHIPPING_FROM THEN 0 ELSE SHIPPING_FLAT

\* the order totals of create, in 1/10000: tax is 19% of the subtotal
OrderTax4(subtotal) == subtotal * VAT_PERCENT

ShippingCost(subtotal) == IF subtotal >= FREE_SHIPPING_FROM THEN 0 ELSE SHIPPING_FLAT

OrderTotal4(subtotal) ==
    subtotal * 100 + OrderTax4(subtotal) + ShippingCost(subtotal) * 100

\* order.subtotal = ...; order.total = ...; order.save()
CreateSaveOrder(r) ==
    LET q == req[r]
        row == [q.order EXCEPT !.subtotal = q.subtotal,
                               !.tax_amount = Quantize2(OrderTax4(q.subtotal)),
                               !.shipping_cost = ShippingCost(q.subtotal),
                               !.total = Quantize2(OrderTotal4(q.subtotal))]
    IN
    /\ q.pc = "save_order"
    /\ orders' = [orders EXCEPT ![q.oid] = row]
    /\ Goto(r, [q EXCEPT !.pc = "save_customer", !.order = row,
                         !.total4 = OrderTotal4(q.subtotal)])
    /\ UNCHANGED <<products, items, history, customers, clock, nreq, pre>>

\* customer_profile.total_orders += 1; total_spent += order.total; save()
CreateSaveCustomer(r) ==
    LET q == req[r] IN
    /\ q.pc = "save_customer"
    /\ customers' = [customers EXCEPT ![q.user] =
            [total_orders |-> q.cust.total_orders + 1,
             total_spent |-> Quantize2(q.cust.total_spent * 100 + q.total4)]]
    /\ Goto(r, [q EXCEPT !.pc = "create_history"])
    /\ UNCHANGED <<products, orders, items, history, clock, nreq, pre>>

\* OrderStatusHistory.objects.create(status="pending", notes="Order placed")
CreateHistory(r) ==
    LET q == req[r] IN
    /\ q.pc = "create_history"
    /\ history' = Append(history, NewHistory(q.oid, "pending", <<"Order placed">>, q.user))
    /\ Finish(r, 201)
    /\ UNCHANGED <<products, orders, items, customers, clock, nreq, pre>>

\* ================================================== access to one order
\* Shop.merchant: bob runs shop 1, mallory shop 2
ShopMerchant(shop) == IF shop = 2 THEN "mallory" ELSE "bob"

HasCustomerProfile(user) == user \in CustomerUsers \cup OtherCustomers

HasMerchantProfile(user) == user \in MerchantUsers \cup OtherMerchants

\* OrderViewSet.get_queryset: a merchant sees the orders of the own shop,
\* a customer the own orders, anybody else nothing
InQueryset(user, o) ==
    IF HasMerchantProfile(user) THEN ShopMerchant(o.shop) = user
    ELSE IF HasCustomerProfile(user) THEN o.customer = user
    ELSE FALSE

\* get_object() raises Http404 for an id outside the queryset
ObjectFound(user, oid) == oid \in 1..Len(orders) /\ InQueryset(user, orders[oid])

\* the ids a client may name: every order and one id that names none
OrderIdInputs == 1..(Len(orders) + 1)

\* ======================================================= cancel an order
\* POST /orders/<id>/cancel/
BeginCancel(r, user, oid, reason) ==
    /\ req[r] = Idle
    /\ Goto(r, [kind |-> "cancel", pc |-> "cancel_get_object", user |-> user,
                oid |-> oid, reason |-> reason, order |-> 0, fetched |-> <<>>,
                i |-> 1, product |-> 0])
    /\ UNCHANGED <<products, orders, items, history, customers, clock>>

\* is_customer or is_merchant of cancel
MayCancel(user, o) ==
    \/ HasCustomerProfile(user) /\ o.customer = user
    \/ HasMerchantProfile(user) /\ ShopMerchant(o.shop) = user

\* order = self.get_object(); the can_be_cancelled and permission checks
CancelGetObject(r) ==
    LET q == req[r] IN
    /\ q.pc = "cancel_get_object"
    /\ IF ~ObjectFound(q.user, q.oid) THEN Finish(r, 404)
       ELSE IF ~can_be_cancelled(orders[q.oid]) THEN Finish(r, 400)
       ELSE IF ~MayCancel(q.user, orders[q.oid]) THEN Finish(r, 403)
       ELSE Goto(r, [q EXCEPT !.pc = "cancel_save_order", !.order = orders[q.oid]])
    /\ UNCHANGED <<products, orders, items, history, customers, clock, nreq, pre>>

\* a cancellation that also takes the order's total back
CancelledOrderRefunded(o, now) ==
    [o EXCEPT !.status = "cancelled", !.cancelled_at = now, !.total = 0]

\* the in-memory order after "status = 'cancelled'; cancelled_at = timezone.now()"
CancelledOrder(o, now) == [o EXCEPT !.status = "cancelled", !.cancelled_at = now]

\* order.status = "cancelled"; order.cancelled_at = timezone.now(); order.save()
CancelSaveOrder(r) ==
    LET q == req[r]
        row == CancelledOrder(q.order, clock + 1)
    IN
    /\ q.pc = "cancel_save_order"
    /\ clock' = clock + 1
    /\ orders' = [orders EXCEPT ![q.oid] = row]
    /\ Goto(r, [q EXCEPT !.pc = "cancel_history", !.order = row])
    /\ UNCHANGED <<products, items, history, customers, nreq, pre>>

\* request.data.get("reason", "No reason provided"); "" stands for no reason sent
CancelReason(reason) == IF reason = "" THEN "No reason provided" ELSE reason

\* OrderStatusHistory.objects.create(status="cancelled", notes="Order cancelled: ...")
CancelHistory(r) ==
    LET q == req[r] IN
    /\ q.pc = "cancel_history"
    /\ history' = Append(history,
                         NewHistory(q.oid, "cancelled",
                                    <<"Order cancelled", CancelReason(q.reason)>>, q.user))
    /\ Goto(r, [q EXCEPT !.pc = "cancel_items_all"])
    /\ UNCHANGED <<products, orders, items, customers, clock, nreq, pre>>

OrderItemsOf(oid) == SelectSeq(items, LAMBDA it : it.order = oid)

\* for item in order.items.all(): the SELECT that feeds the loop
CancelItemsAll(r) ==
    LET q == req[r]
        rows == OrderItemsOf(q.oid)
    IN
    /\ q.pc = "cancel_items_all"
    /\ IF rows = <<>> THEN Finish(r, 200)
       ELSE Goto(r, [q EXCEPT !.pc = "cancel_get_product", !.fetched = rows, !.i = 1])
    /\ UNCHANGED <<products, orders, items, history, customers, clock, nreq, pre>>

\* product = item.product (the foreign key is loaded on access)
CancelGetProduct(r) ==
    LET q == req[r] IN
    /\ q.pc = "cancel_get_product"
    /\ Goto(r, [q EXCEPT !.pc = "cancel_save_product",
                         !.product = products[q.fetched[q.i].product]])
    /\ UNCHANGED <<products, orders, items, history, customers, clock, nreq, pre>>

\* a release that forgets the sales counter
ReleaseStockOnly(p, quantity) ==
    [p EXCEPT !.stock_quantity = p.stock_quantity + quantity]

\* the in-memory product after "stock_quantity += quantity; sales_count -= quantity"
ReleaseStock(p, quantity) ==
    [p EXCEPT !.stock_quantity = p.stock_quantity + quantity,
              !.sales_count = p.sales_count - quantity]

\* product.save() of the restore loop; an IntegrityError ends the request (500)
CancelSaveProduct(r) ==
    LET q == req[r]
        it == q.fetched[q.i]
        row == ReleaseStock(q.product, it.quantity)
    IN
    /\ q.pc = "cancel_save_product"
    /\ IF ProductSaveFails(row)
       THEN Finish(r, 500) /\ UNCHANGED products
       ELSE /\ products' = [products EXCEPT ![it.product] = row]
            /\ IF q.i < Len(q.fetched)
               THEN Goto(r, [q EXCEPT !.pc = "cancel_get_product", !.i = q.i + 1,
                                      !.product = 0])
               ELSE Finish(r, 200)
    /\ UNCHANGED <<orders, items, history, customers, clock, nreq, pre>>

\* ========================================================= update_status
\* PATCH /orders/<id>/update_status/
BeginUpdateStatus(r, user, oid, new_status, notes) ==
    /\ req[r] = Idle
    /\ Goto(r, [kind |-> "update_status", pc |-> "update_get_object", user |-> user,
                oid |-> oid, new_status |-> new_status, notes |-> notes,
                order |-> 0, old_status |-> ""])
    /\ UNCHANGED <<products, orders, items, history, customers, clock>>

\* an update_status that asks only whether the caller can see the order
UpdateGetObjectNoMerchantCheck(r) ==
    LET q == req[r] IN
    /\ q.pc = "update_get_object"
    /\ IF ~ObjectFound(q.user, q.oid) THEN Finish(r, 404)
       ELSE IF q.new_status = "" \/ q.new_status \notin valid_statuses THEN Finish(r, 400)
       ELSE Goto(r, [q EXCEPT !.pc = "update_save_order", !.order = orders[q.oid]])
    /\ UNCHANGED <<products, orders, items, history, customers, clock, nreq, pre>>

\* order = self.get_object(); merchant check; "status" present and declared
UpdateGetObject(r) ==
    LET q == req[r] IN
    /\ q.pc = "update_get_object"
    /\ IF ~ObjectFound(q.user, q.oid) THEN Finish(r, 404)
       ELSE IF ~HasMerchantProfile(q.user) \/ ShopMerchant(orders[q.oid].shop) # q.user
            THEN Finish(r, 403)
       ELSE IF q.new_status = "" \/ q.new_status \notin valid_statuses THEN Finish(r, 400)
       ELSE Goto(r, [q EXCEPT !.pc = "update_save_order", !.order = orders[q.oid]])
    /\ UNCHANGED <<products, orders, items, history, customers, clock, nreq, pre>>

\* the lifecycle timestamp that update_status sets for the new status, if any
StampField(o, new_status) ==
    IF new_status = "confirmed" /\ o.confirmed_at = 0 THEN "confirmed_at"
    ELSE IF new_status = "shipped" /\ o.shipped_at = 0 THEN "shipped_at"
    ELSE IF new_status = "delivered" /\ o.delivered_at = 0 THEN "delivered_at"
    ELSE IF new_status = "cancelled" /\ o.cancelled_at = 0 THEN "cancelled_at"
    ELSE "none"

Stamp(o, new_status, now) ==
    LET f == StampField(o, new_status) IN
    IF f = "confirmed_at" THEN [o EXCEPT !.confirmed_at = now]
    ELSE IF f = "shipped_at" THEN [o EXCEPT !.shipped_at = now]
    ELSE IF f = "delivered_at" THEN [o EXCEPT !.delivered_at = now]
    ELSE IF f = "cancelled_at" THEN [o EXCEPT !.cancelled_at = now]
    ELSE o

\* old_status = order.status; order.status = new_status; timestamps; order.save()
UpdateSaveOrder(r) ==
    LET q == req[r]
        stamped == StampField(q.order, q.new_status) # "none"
        now == IF stamped THEN clock + 1 ELSE clock
        row == Stamp([q.order EXCEPT !.status = q.new_status], q.new_status, now)
    IN
    /\ q.pc = "update_save_order"
    /\ clock' = now
    /\ orders' = [orders EXCEPT ![q.oid] = row]
    /\ Goto(r, [q EXCEPT !.pc = "update_history", !.order = row,
                         !.old_status = q.order.status])
    /\ UNCHANGED <<products, items, history, customers, nreq, pre>>

\* notes that are always generated, whatever the caller sent
StatusNotesGenerated(notes, old_status, new_status) ==
    <<"Status changed from", old_status, "to", new_status>>

\* notes or f"Status changed from {old_status} to {new_status}"
StatusNotes(notes, old_status, new_status) ==
    IF notes # "" THEN <<notes>> ELSE <<"Status changed from", old_status, "to", new_status>>

\* a status update that writes no history record
UpdateHistoryOmitted(r) ==
    /\ req[r].pc = "update_history"
    /\ Finish(r, 200)
    /\ UNCHANGED <<products, orders, items, history, customers, clock, nreq, pre>>

\* OrderStatusHistory.objects.create(status=new_status, notes=..., changed_by=...)
UpdateHistory(r) ==
    LET q == req[r] IN
    /\ q.pc = "update_history"
    /\ history' = Append(history,
                         NewHistory(q.oid, q.new_status,
                                    StatusNotes(q.notes, q.old_status, q.new_status), q.user))
    /\ Finish(r, 200)
    /\ UNCHANGED <<products, orders, items, customers, clock, nreq, pre>>

\* ======================================================= update_tracking
\* PATCH /orders/<id>/update_tracking/
BeginUpdateTracking(r, user, oid, tracking_number, tracking_url) ==
    /\ req[r] = Idle
    /\ Goto(r, [kind |-> "update_tracking", pc |-> "tracking_get_object", user |-> user,
                oid |-> oid, tracking_number |-> tracking_number,
                tracking_url |-> tracking_url, order |-> 0])
    /\ UNCHANGED <<products, orders, items, history, customers, clock>>

\* order = self.get_object(); merchant check; without a tracking number the
\* order is returned as it is
TrackingGetObject(r) ==
    LET q == req[r] IN
    /\ q.pc = "tracking_get_object"
    /\ IF ~ObjectFound(q.user, q.oid) THEN Finish(r, 404)
       ELSE IF ~HasMerchantProfile(q.user) \/ ShopMerchant(orders[q.oid].shop) # q.user
            THEN Finish(r, 403)
       ELSE IF q.tracking_number = "" THEN Finish(r, 200)
       ELSE Goto(r, [q EXCEPT !.pc = "tracking_save_order", !.order = orders[q.oid]])
    /\ UNCHANGED <<products, orders, items, history, customers, clock, nreq, pre>>

\* a tracking update that also marks the order as shipped
TrackedOrderShipped(o, tracking_number, tracking_url) ==
    [o EXCEPT !.tracking_number = tracking_number, !.tracking_url = tracking_url,
              !.status = "shipped"]

\* the in-memory order after "tracking_number = ...; tracking_url = ..."
TrackedOrder(o, tracking_number, tracking_url) ==
    [o EXCEPT !.tracking_number = tracking_number, !.tracking_url = tracking_url]

\* order.tracking_number = ...; order.tracking_url = ...; order.save()
TrackingSaveOrder(r) ==
    LET q == req[r]
        row == TrackedOrder(q.order, q.tracking_number, q.tracking_url)
    IN
    /\ q.pc = "tracking_save_order"
    /\ orders' = [orders EXCEPT ![q.oid] = row]
    /\ Goto(r, [q EXCEPT !.pc = "tracking_history", !.order = row])
    /\ UNCHANGED <<products, items, history, customers, clock, nreq, pre>>

\* a tracking update that overwrites the newest history record
TrackingHistoryAmending(r) ==
    LET q == req[r] IN
    /\ q.pc = "tracking_history"
    /\ history' = [history EXCEPT ![Len(history)] =
                       NewHistory(q.oid, q.order.status,
                                  <<"Tracking number added", q.tracking_number>>, q.user)]
    /\ Finish(r, 200)
    /\ UNCHANGED <<products, orders, items, customers, clock, nreq, pre>>

\* OrderStatusHistory.objects.create(status=order.status, notes="Tracking number added: ...")
TrackingHistory(r) ==
    LET q == req[r] IN
    /\ q.pc = "tracking_history"
    /\ history' = Append(history,
                         NewHistory(q.oid, q.order.status,
                                    <<"Tracking number added", q.tracking_number>>, q.user))
    /\ Finish(r, 200)
    /\ UNCHANGED <<products, orders, items, customers, clock, nreq, pre>>

\* ======================================================= update a product
\* PATCH /products/<slug>/ with ProductCreateUpdateSerializer (ModelViewSet)
BeginProductUpdate(r, user, pid, data) ==
    /\ req[r] = Idle
    /\ Goto(r, [kind |-> "product_update", pc |-> "product_get_object", user |-> user,
                pid |-> pid, data |-> data, product |-> 0])
    /\ UNCHANGED <<products, orders, items, history, customers, clock>>

\* ProductCreateUpdateSerializer.validate: a sale price sent together with a
\* price must be below it
ProductDataInvalid(data) ==
    /\ "sale_price" \in DOMAIN data /\ "price" \in DOMAIN data
    /\ data.sale_price # 0 /\ data.price # 0
    /\ data.sale_price >= data.price

\* get_object() on the active products, then serializer.is_valid()
ProductGetObject(r) ==
    LET q == req[r] IN
    /\ q.pc = "product_get_object"
    /\ IF q.pid \notin Products \/ ~products[q.pid].is_active THEN Finish(r, 404)
       ELSE IF ProductDataInvalid(q.data) THEN Finish(r, 400)
       ELSE Goto(r, [q EXCEPT !.pc = "product_save", !.product = products[q.pid]])
    /\ UNCHANGED <<products, orders, items, history, customers, clock, nreq, pre>>

\* ModelSerializer.update: setattr for every field sent
ProductWithData(p, data) ==
    [f \in DOMAIN p |-> IF f \in DOMAIN data THEN data[f] ELSE p[f]]

\* instance.save() of ModelSerializer.update
ProductSave(r) ==
    LET q == req[r] IN
    /\ q.pc = "product_save"
    /\ products' = [products EXCEPT ![q.pid] = ProductWithData(q.product, q.data)]
    /\ Finish(r, 200)
    /\ UNCHANGED <<orders, items, history, customers, clock, nreq, pre>>

\* ==================================================== the specifications
\* the "reason" of a cancel request: none is sent
Reasons == {""}

NotesInputs == {""}

\* one step of a create request that is under way
CreateStep(r) ==
    \/ ValidateItems(r)
    \/ CreateGetProfile(r)
    \/ CreateOrderRow(r)
    \/ CreateGetProduct(r)
    \/ CreateItem(r)
    \/ CreateSaveProduct(r)
    \/ CreateSaveOrder(r)
    \/ CreateSaveCustomer(r)
    \/ CreateHistory(r)

TrackingStep(r) == TrackingGetObject(r) \/ TrackingSaveOrder(r) \/ TrackingHistory(r)

ProductStep(r) == ProductGetObject(r) \/ ProductSave(r)

CancelStep(r) ==
    \/ CancelGetObject(r)
    \/ CancelSaveOrder(r)
    \/ CancelHistory(r)
    \/ CancelItemsAll(r)
    \/ CancelGetProduct(r)
    \/ CancelSaveProduct(r)

UpdateStatusStep(r) == UpdateGetObject(r) \/ UpdateSaveOrder(r) \/ UpdateHistory(r)

\* one step of a create, cancel or update_status request that is under way
Step(r) == CreateStep(r) \/ CancelStep(r) \/ UpdateStatusStep(r)

\* ---- requests served one at a time: a request arrives when none is under way
Arrive(max) ==
    /\ AllIdle
    /\ nreq < max
    /\ nreq' = nreq + 1
    /\ pre' = DB

ArriveCreate ==
    /\ Arrive(MaxRequests)
    /\ \E u \in CustomerUsers, its \in ItemLists : BeginCreate("r1", u, its)

ArriveCancel ==
    /\ Arrive(MaxRequests)
    /\ \E u \in Users, oid \in OrderIdInputs, reason \in Reasons :
           BeginCancel("r1", u, oid, reason)

ArriveUpdateStatus ==
    /\ Arrive(MaxRequests)
    /\ \E u \in Users, oid \in OrderIdInputs, st \in StatusInputs, n \in NotesInputs :
           BeginUpdateStatus("r1", u, oid, st, n)

NextSeq == ArriveCreate \/ ArriveCancel \/ ArriveUpdateStatus \/ Step("r1")

SpecSeq == Init /\ [][NextSeq]_vars

\* ---- the life of one order: it is placed, then requests on it arrive one at a time
LifeItemLists ==
    {<<OrderItemInput(1, 1)>>, <<OrderItemInput(2, 2), OrderItemInput(1, 1)>>}

PlaceOrder ==
    /\ orders = <<>>
    /\ Arrive(MaxLifeRequests)
    /\ \E u \in CustomerUsers, its \in LifeItemLists : BeginCreate("r1", u, its)

\* the "reason" of a cancel request: none, or a text of the caller
LifeReasons == {"", "Changed my mind"}

LifeCancel ==
    /\ Arrive(MaxLifeRequests)
    /\ \E u \in Users, oid \in 1..Len(orders), reason \in LifeReasons :
           BeginCancel("r1", u, oid, reason)

\* the notes of a status update: none, or a text of the merchant
LifeNotesInputs == {"", "Packed"}

LifeUpdateStatus ==
    /\ Arrive(MaxLifeRequests)
    /\ \E oid \in 1..Len(orders), st \in valid_statuses, n \in LifeNotesInputs :
           BeginUpdateStatus("r1", "bob", oid, st, n)

\* the tracking number of a tracking update: none, or a number of the carrier
TrackingInputs == {"", "TRK-1"}

\* the tracking URL of a tracking update: none, or a page of the carrier
TrackingUrlInputs == {"", "https://carrier.example/TRK-1"}

LifeUpdateTracking ==
    /\ Arrive(MaxLifeRequests)
    /\ \E oid \in 1..Len(orders), tn \in TrackingInputs, url \in TrackingUrlInputs :
           BeginUpdateTracking("r1", "bob", oid, tn, url)

NextLife ==
    PlaceOrder \/ LifeCancel \/ LifeUpdateStatus \/ LifeUpdateTracking
        \/ Step("r1") \/ TrackingStep("r1")

SpecLife == Init /\ [][NextLife]_vars

\* ---- the shop: orders are placed and the merchant edits products, one request
\* at a time
ShopItemLists ==
    {<<OrderItemInput(1, 1)>>, <<OrderItemInput(2, 1)>>,
     <<OrderItemInput(2, 2), OrderItemInput(1, 1)>>}

\* the fields a product update sends: a new price (below or equal to the sale
\* price of product 1, or 11.90), a price below the sale price sent with it, a
\* new sale price, a new name and SKU
ProductDataInputs ==
    {[price |-> 250], [price |-> 1000], [price |-> 1190],
     [price |-> 1500, sale_price |-> 2000],
     [sale_price |-> 900], [name |-> "Vase", sku |-> "VASE-9"]}

ShopCreate ==
    /\ Arrive(MaxShopRequests)
    /\ \E u \in CustomerUsers, its \in ShopItemLists : BeginCreate("r1", u, its)

ShopProductUpdate ==
    /\ Arrive(MaxShopRequests)
    /\ \E u \in MerchantUsers, pid \in Products, data \in ProductDataInputs :
           BeginProductUpdate("r1", u, pid, data)

NextShop == ShopCreate \/ ShopProductUpdate \/ CreateStep("r1") \/ ProductStep("r1")

SpecShop == Init /\ [][NextShop]_vars

\* ---- the marketplace: two shops and five users; orders are placed, then
\* anybody may send a request on any order, one request at a time
InitMarketProducts ==
    [InitProducts EXCEPT
        ![3] = [NewProduct("Pen", "PEN-3", MaxStock, 1190, 0, TRUE) EXCEPT !.shop = 2]]

InitMarket ==
    /\ products = InitMarketProducts
    /\ orders = <<>>
    /\ items = <<>>
    /\ history = <<>>
    /\ customers = [u \in CustomerUsers |-> [total_orders |-> 0, total_spent |-> 0]]
    /\ clock = 0
    /\ req = [r \in Requests |-> Idle]
    /\ resp = [r \in Requests |-> NoResponse]
    /\ nreq = 0
    /\ pre = DB

MarketItemLists ==
    {<<OrderItemInput(1, 1)>>, <<OrderItemInput(3, 1)>>,
     <<OrderItemInput(1, 1), OrderItemInput(3, 1)>>}

MarketStatusInputs == {"confirmed", "cancelled"}

MarketCreate ==
    /\ orders = <<>>
    /\ Arrive(MaxMarketRequests)
    /\ \E u \in CustomerUsers, its \in MarketItemLists : BeginCreate("r1", u, its)

MarketCancel ==
    /\ Arrive(MaxMarketRequests)
    /\ \E u \in AllUsers, oid \in 1..Len(orders), reason \in Reasons :
           BeginCancel("r1", u, oid, reason)

MarketUpdateStatus ==
    /\ Arrive(MaxMarketRequests)
    /\ \E u \in AllUsers, oid \in 1..Len(orders), st \in MarketStatusInputs,
          n \in NotesInputs :
           BeginUpdateStatus("r1", u, oid, st, n)

MarketUpdateTracking ==
    /\ Arrive(MaxMarketRequests)
    /\ \E u \in AllUsers, oid \in 1..Len(orders) :
           BeginUpdateTracking("r1", u, oid, "TRK-1", "")

NextMarket ==
    MarketCreate \/ MarketCancel \/ MarketUpdateStatus \/ MarketUpdateTracking
        \/ Step("r1") \/ TrackingStep("r1")

SpecMarket == InitMarket /\ [][NextMarket]_vars

\* ---- racing cancels: orders are placed one at a time, then the statements of
\* the cancel requests interleave
RaceItemLists == {<<OrderItemInput(2, 1)>>}

RaceCreate ==
    /\ Arrive(MaxRaceRequests)
    /\ \E u \in CustomerUsers, its \in RaceItemLists : BeginCreate("r1", u, its)

RaceCancel(r) ==
    /\ nreq < MaxRaceRequests
    /\ nreq' = nreq + 1
    /\ UNCHANGED pre
    /\ \A r2 \in Requests : req[r2].kind # "create"
    /\ \E u \in CustomerUsers, oid \in 1..Len(orders), reason \in Reasons :
           BeginCancel(r, u, oid, reason)

NextRace ==
    RaceCreate \/ CreateStep("r1") \/ \E r \in Requests : RaceCancel(r) \/ CancelStep(r)

SpecRace == Init /\ [][NextRace]_vars

\* ---- requests served concurrently: the statements of the requests interleave
ConcStatusInputs == {"pending", "shipped", "cancelled"}

Accept ==
    /\ nreq < MaxRequestsConc
    /\ nreq' = nreq + 1
    /\ UNCHANGED pre

AcceptCreate(r) ==
    /\ Accept
    /\ \E u \in CustomerUsers, its \in ConcItemLists : BeginCreate(r, u, its)

AcceptCancel(r) ==
    /\ Accept
    /\ \E u \in Users, oid \in 1..Len(orders), reason \in Reasons :
           BeginCancel(r, u, oid, reason)

AcceptUpdateStatus(r) ==
    /\ Accept
    /\ \E oid \in 1..Len(orders), st \in ConcStatusInputs, n \in NotesInputs :
           BeginUpdateStatus(r, "bob", oid, st, n)

Next ==
    \E r \in Requests :
        AcceptCreate(r) \/ AcceptCancel(r) \/ AcceptUpdateStatus(r) \/ Step(r)

Spec == Init /\ [][Next]_vars

\* ---- the requests that move stock, served concurrently: create and cancel
NextStock ==
    \E r \in Requests :
        AcceptCreate(r) \/ AcceptCancel(r) \/ CreateStep(r) \/ CancelStep(r)

SpecStock == Init /\ [][NextStock]_vars

\* ================================================================ claims
\* the quantity of product p on the lines of an item list or of item rows
QuantityOn(rows, p, ProductOf(_)) ==
    SumSeq([k \in 1..Len(rows) |->
                IF ProductOf(rows[k]) = p THEN rows[k].quantity ELSE 0])

OrderedQuantity(its, p) == QuantityOn(its, p, LAMBDA it : it.product_id)

ItemQuantity(rows, p) == QuantityOn(rows, p, LAMBDA it : it.product)

\* the request that r1 finishes in this step, and its response
Finishes(kind) == req["r1"].kind = kind /\ req'["r1"] = Idle

NoDuplicateLines ==
    \A j, k \in 1..Len(items) :
        (items[j].order = items[k].order /\ items[j].product = items[k].product) => j = k

NothingCancelled == \A k \in 1..Len(history) : history[k].status # "cancelled"

\* C1: order creations that run concurrently never together reserve more of a
\* product than the stock that was available: while no order has a product on
\* two lines and none was cancelled, the quantities on the order items of a
\* product add up to at most its initial stock (two requests for the last unit
\* do not both succeed).
C1_NoOversell ==
    (NoDuplicateLines /\ NothingCancelled) =>
        \A p \in Products : ItemQuantity(items, p) <= InitProducts[p].stock_quantity

\* C2: in every reachable state every product's stock_quantity is >= 0.
C2_StockNeverNegative == \A p \in Products : products[p].stock_quantity >= 0

\* an item that the claim calls failing, against the products of a database state
ItemUnavailable(prods, it) ==
    \/ it.product_id \notin DOMAIN prods
    \/ ~prods[it.product_id].is_active
    \/ it.quantity > prods[it.product_id].stock_quantity

\* C3: a create-order request with an item that fails (quantity above the stock,
\* inactive product, product not found) is rejected, and a rejected create-order
\* request leaves every table as it was when the request arrived.
C3_FailedCreateChangesNothing ==
    [][Finishes("create") =>
          /\ (\E k \in 1..Len(req["r1"].items) :
                  ItemUnavailable(pre.products, req["r1"].items[k]))
                => resp'["r1"].code = 400
          /\ resp'["r1"].code # 201 => DB' = pre]_vars

\* a two-line request was rejected for its second line, after a valid first line
C3_Witness ==
    /\ AllIdle
    /\ resp["r1"] = Response("create", 400, "only_n_in_stock", 2)
    /\ DB = pre

\* C4: a successful order creation takes the ordered quantity of every product
\* off its stock_quantity and adds it to its sales_count; products that are not
\* ordered keep their stock.
C4_CreateReservesOrderedQuantity ==
    [][(Finishes("create") /\ resp'["r1"].code = 201) =>
          \A p \in Products :
              /\ products'[p].stock_quantity =
                     pre.products[p].stock_quantity - OrderedQuantity(req["r1"].items, p)
              /\ products'[p].sales_count =
                     pre.products[p].sales_count + OrderedQuantity(req["r1"].items, p)]_vars

\* an order of 2 of product 2 and 1 of product 1 was placed; product 3 is untouched
C4_Witness ==
    /\ AllIdle
    /\ resp["r1"].kind = "create" /\ resp["r1"].code = 201
    /\ products[2].stock_quantity = pre.products[2].stock_quantity - 2
    /\ products[1].stock_quantity = pre.products[1].stock_quantity - 1
    /\ products[3] = pre.products[3]

\* C5: for every order, total = subtotal + shipping_cost - discount_amount -
\* tokens_value; tax_amount is not added into total (1 x 10.00 gives subtotal
\* 10.00, shipping 4.99 and total 14.99).
C5_TotalLeavesTaxOut ==
    \A oid \in 1..Len(orders) :
        orders[oid].total =
            orders[oid].subtotal + orders[oid].shipping_cost
                - orders[oid].discount_amount - orders[oid].tokens_value

\* the order's creation has run to its end: its "Order placed" record is written
Placed(oid) ==
    \E k \in 1..Len(history) :
        history[k].order = oid /\ history[k].notes = <<"Order placed">>

ItemTaxSum(rows) == SumSeq([k \in 1..Len(rows) |-> rows[k].tax_amount])

\* C6: the tax_amount of every created order is the sum of the tax_amount values
\* of its order items (the tax extracted from the tax-inclusive line totals).
C6_OrderTaxIsSumOfItemTax ==
    \A oid \in 1..Len(orders) :
        Placed(oid) => orders[oid].tax_amount = ItemTaxSum(OrderItemsOf(oid))

NonTerminal == {"pending", "confirmed", "processing", "shipped"}

DeclaredEdges ==
    {<<"pending", "confirmed">>, <<"confirmed", "processing">>,
     <<"processing", "shipped">>, <<"shipped", "delivered">>,
     <<"pending", "cancelled">>, <<"confirmed", "cancelled">>}
        \cup {<<st, "refunded">> : st \in NonTerminal}

\* C7: the status of an order changes only along the declared edges, so never
\* out of delivered, cancelled or refunded.
C7_OnlyDeclaredTransitions ==
    [][\A oid \in 1..Len(orders) :
          orders'[oid].status # orders[oid].status =>
              <<orders[oid].status, orders'[oid].status>> \in DeclaredEdges]_vars

CancelRecords(hist, oid) ==
    Cardinality({k \in 1..Len(hist) :
                    hist[k].order = oid /\ Head(hist[k].notes) = "Order cancelled"})

ItemsOfOrder(rows, oid) == SelectSeq(rows, LAMBDA it : it.order = oid)

\* what a cancel of order oid, arrived in database state pre, leaves in the tables d
CancelEffect(d, oid) ==
    /\ d.orders[oid].status = "cancelled"
    /\ CancelRecords(d.history, oid) >= 1
    /\ \A p \in Products :
           d.products[p].stock_quantity =
               pre.products[p].stock_quantity + ItemQuantity(ItemsOfOrder(d.items, oid), p)

\* C8: a successful cancel sets the status to cancelled and adds the quantity of
\* every order item back to its product's stock, and an order is cancelled, with
\* its stock release, once in its life.
C8_CancelReleasesStockOnce ==
    [][/\ (Finishes("cancel") /\ resp'["r1"].code = 200) =>
              CancelEffect(DB', req["r1"].oid)
       /\ \A oid \in 1..Len(orders) : CancelRecords(history', oid) <= 1]_vars

\* C9: cancel succeeds only on an order that is pending or confirmed; on an order
\* in any other status it fails and leaves every table as it was.
C9_CancelOnlyPendingOrConfirmed ==
    [][Finishes("cancel") =>
          LET oid == req["r1"].oid
              known == oid \in 1..Len(pre.orders)
          IN  /\ resp'["r1"].code = 200 =>
                     known /\ pre.orders[oid].status \in {"pending", "confirmed"}
              /\ (known /\ pre.orders[oid].status \notin {"pending", "confirmed"}) =>
                     resp'["r1"].code = 400 /\ DB' = pre]_vars

\* a cancel of a delivered order was refused and nothing has changed
C9_Witness ==
    /\ AllIdle
    /\ resp["r1"] = Response("cancel", 400, "", 0)
    /\ \E oid \in 1..Len(orders) : orders[oid].status = "delivered"
    /\ DB = pre

\* C10: cancellation is atomic: while a cancel request runs, the tables show the
\* state before it, and they change only when it ends in success, then to the
\* cancelled status, the history record and the stock of all items released.
C10_CancelIsAtomic ==
    [][req["r1"].kind = "cancel" =>
          \/ DB' = pre
          \/ /\ req'["r1"] = Idle
             /\ resp'["r1"].code = 200
             /\ CancelEffect(DB', req["r1"].oid)]_vars

\* the lifecycle timestamp of each status that has one
StampOf ==
    [confirmed |-> "confirmed_at", shipped |-> "shipped_at",
     delivered |-> "delivered_at", cancelled |-> "cancelled_at"]

\* C11: each lifecycle timestamp (confirmed_at, shipped_at, delivered_at,
\* cancelled_at) is set at most once per order: the first transition into the
\* status stamps it, and once it is set no later update_status or cancel
\* changes its value.
C11_TimestampsSetOnce ==
    [][\A oid \in 1..Len(orders) : \A st \in DOMAIN StampOf :
          /\ (orders'[oid].status = st /\ orders[oid].status # st) =>
                 orders'[oid][StampOf[st]] # 0
          /\ orders[oid][StampOf[st]] # 0 =>
                 orders'[oid][StampOf[st]] = orders[oid][StampOf[st]]]_vars

HistoryCount(hist, oid) == Cardinality({k \in 1..Len(hist) : hist[k].order = oid})

\* the request of r1 ends in this step
Ends == req["r1"] # Idle /\ req'["r1"] = Idle

\* the request that ends has placed its order or written its order's status
Transition ==
    \/ req["r1"].kind = "create" /\ resp'["r1"].code = 201
    \/ req["r1"].kind = "update_status" /\ resp'["r1"].code = 200
    \/ req["r1"].kind = "cancel" /\ resp'["r1"].code \in {200, 500}

\* the request that ends has set a tracking number
TrackingSet ==
    /\ req["r1"].kind = "update_tracking" /\ resp'["r1"].code = 200
    /\ req["r1"].tracking_number # ""

\* C12 (as claimed): every status transition appends exactly one history record
\* of its order and no other operation on the order appends one, so that an
\* order has N+1 records after its creation and N transitions.
C12_OneRecordPerTransition ==
    [][Ends =>
          \A oid \in 1..Len(orders') :
              HistoryCount(history', oid) =
                  HistoryCount(pre.history, oid)
                      + (IF Transition /\ req["r1"].oid = oid THEN 1 ELSE 0)]_vars

\* C12 (amended): every status transition appends exactly one history record of
\* its order, and so does every update_tracking call that sets a tracking
\* number; no other request appends one.
C12_OneRecordPerTransitionOrTracking ==
    [][Ends =>
          \A oid \in 1..Len(orders') :
              HistoryCount(history', oid) =
                  HistoryCount(pre.history, oid)
                      + (IF (Transition \/ TrackingSet) /\ req["r1"].oid = oid
                         THEN 1 ELSE 0)]_vars

\* an order was placed, its status updated and a tracking number set: 3 records
C12_Witness ==
    /\ AllIdle
    /\ resp["r1"].kind = "update_tracking" /\ resp["r1"].code = 200
    /\ HistoryCount(history, 1) = 3
    /\ \E k \in 1..Len(history) : Head(history[k].notes) = "Tracking number added"
    /\ \E k \in 1..Len(history) : history[k].status = "shipped"

\* the history record written last
Newest(hist) == hist[Len(hist)]

\* an update_status or cancel request of r1 ends in success
TransitionDone ==
    /\ Ends /\ req["r1"].kind \in {"update_status", "cancel"}
    /\ resp'["r1"].code = 200

\* the notes the caller sent: "notes" of update_status, "reason" of cancel
SuppliedNotes(q) == IF q.kind = "update_status" THEN q.notes ELSE q.reason

GeneratedNotes(old, new) == <<"Status changed from", old, "to", new>>

\* the newest record is of the order of the request, with its new status and actor
NewestCarries(hist, ords, q) ==
    /\ Newest(hist).order = q.oid
    /\ Newest(hist).status = ords[q.oid].status
    /\ Newest(hist).changed_by = q.user

\* C13 (as claimed): after every transition (update_status or cancel) the newest
\* history record of the order carries the new status and the acting user, and
\* its notes are the notes the caller supplied or, when none were supplied,
\* "Status changed from <old> to <new>".
C13_HistoryRecordOfTransition ==
    [][TransitionDone =>
          LET q == req["r1"] IN
          /\ NewestCarries(history', orders', q)
          /\ Newest(history').notes =
                 IF SuppliedNotes(q) # "" THEN <<SuppliedNotes(q)>>
                 ELSE GeneratedNotes(pre.orders[q.oid].status, orders'[q.oid].status)]_vars

\* C13 (amended): as claimed for update_status; after cancel the notes are
\* "Order cancelled: <reason>", with the reason the caller supplied or
\* "No reason provided".
C13_HistoryRecordOfUpdateOrCancel ==
    [][TransitionDone =>
          LET q == req["r1"] IN
          /\ NewestCarries(history', orders', q)
          /\ Newest(history').notes =
                 IF q.kind = "cancel"
                 THEN <<"Order cancelled",
                        IF q.reason # "" THEN q.reason ELSE "No reason provided">>
                 ELSE IF q.notes # "" THEN <<q.notes>>
                 ELSE GeneratedNotes(pre.orders[q.oid].status, orders'[q.oid].status)]_vars

\* the merchant has shipped a confirmed order with a note of their own
C13_Witness ==
    /\ AllIdle
    /\ resp["r1"].kind = "update_status" /\ resp["r1"].code = 200
    /\ Len(history) >= 3
    /\ Newest(history) = NewHistory(1, "shipped", <<"Packed">>, "bob")
    /\ pre.orders[1].status = "confirmed"

\* the seven status values an order declares
DeclaredStatusValues ==
    {"pending", "confirmed", "processing", "shipped", "delivered", "cancelled",
     "refunded"}

\* C14: an update_status request whose target is none of the seven declared
\* status values, or is missing, fails and leaves the order untouched: status,
\* lifecycle timestamps and history are as they were.
C14_InvalidStatusLeavesOrder ==
    [][(Finishes("update_status") /\ req["r1"].new_status \notin DeclaredStatusValues) =>
          /\ resp'["r1"].code \in {400, 403, 404}
          /\ orders' = pre.orders
          /\ history' = pre.history]_vars

\* the merchant's update of an order was refused for its status value
C14_Witness ==
    /\ AllIdle
    /\ resp["r1"] = Response("update_status", 400, "", 0)
    /\ orders # <<>>
    /\ orders = pre.orders /\ history = pre.history

\* C15: a successful order creation persists the order with status pending,
\* increments the customer's total_orders by 1 and total_spent by the order's
\* total, and appends exactly one initial history record, with status pending
\* and the note "Order placed".
C15_CreateEffects ==
    [][(Finishes("create") /\ resp'["r1"].code = 201) =>
          LET oid == req["r1"].oid
              u == req["r1"].user
          IN  /\ Len(orders') = Len(pre.orders) + 1 /\ oid = Len(orders')
              /\ orders'[oid].status = "pending"
              /\ customers'[u].total_orders = pre.customers[u].total_orders + 1
              /\ customers'[u].total_spent =
                     pre.customers[u].total_spent + orders'[oid].total
              /\ HistoryCount(history', oid) = 1
              /\ Newest(history').order = oid
              /\ Newest(history').status = "pending"
              /\ Newest(history').notes = <<"Order placed">>]_vars

\* C16: a create-order request with an empty item list, or with an item whose
\* quantity is <= 0, is rejected with a validation error before any mutation:
\* no order, item or history record is created and no product changes.
C16_EmptyOrNonPositiveRejected ==
    [][(/\ Finishes("create")
        /\ \/ req["r1"].items = <<>>
           \/ \E k \in 1..Len(req["r1"].items) : req["r1"].items[k].quantity <= 0) =>
          /\ resp'["r1"].code = 400
          /\ orders' = pre.orders /\ items' = pre.items
          /\ history' = pre.history /\ products' = pre.products]_vars

\* a request was rejected for the quantity 0 of its second line
C16_Witness ==
    /\ AllIdle
    /\ resp["r1"] = Response("create", 400, "quantity", 2)
    /\ orders = pre.orders /\ items = pre.items
    /\ history = pre.history /\ products = pre.products

LineTotalSum(rows) == SumSeq([k \in 1..Len(rows) |-> rows[k].line_total])

\* C17: for every order created from a valid item list, the line_total of each
\* order item is unit_price x quantity exactly, and the order's subtotal is the
\* sum of the line_total values of its items.
C17_LineTotalsAndSubtotal ==
    \A oid \in 1..Len(orders) :
        Placed(oid) =>
            /\ \A k \in 1..Len(items) :
                   items[k].order = oid =>
                       items[k].line_total = items[k].unit_price * items[k].quantity
            /\ orders[oid].subtotal = LineTotalSum(ItemsOfOrder(items, oid))

\* an order of 2 of product 2 and 1 of product 1: 50.00 + 10.00
C17_Witness ==
    /\ AllIdle
    /\ \E oid \in 1..Len(orders) :
           /\ Placed(oid)
           /\ Len(ItemsOfOrder(items, oid)) = 2
           /\ ItemsOfOrder(items, oid)[1].line_total = 5000
           /\ ItemsOfOrder(items, oid)[1].quantity = 2
           /\ orders[oid].subtotal = 6000

\* C18: for every order created, shipping_cost is 0.00 when the subtotal is at
\* least the free-shipping threshold 50.00 (the boundary included), and the
\* flat fee 4.99 otherwise.
C18_ShippingByThreshold ==
    \A oid \in 1..Len(orders) :
        Placed(oid) =>
            orders[oid].shipping_cost =
                IF orders[oid].subtotal >= FREE_SHIPPING_FROM THEN 0 ELSE SHIPPING_FLAT

\* an order of exactly 50.00 ships free, one of 10.00 pays the flat fee
C18_Witness ==
    /\ AllIdle
    /\ \E oid \in 1..Len(orders) :
           Placed(oid) /\ orders[oid].subtotal = 5000 /\ orders[oid].shipping_cost = 0
    /\ \E oid \in 1..Len(orders) :
           Placed(oid) /\ orders[oid].subtotal = 1000 /\ orders[oid].shipping_cost = 499

\* the monetary fields of an order and of an order item
MoneyOf(o) ==
    <<o.subtotal, o.tax_amount, o.shipping_cost, o.discount_amount, o.tokens_used,
      o.tokens_value, o.total>>

ItemMoneyOf(it) == <<it.unit_price, it.quantity, it.line_total>>

\* C19: cancelling an order leaves its monetary fields unchanged: subtotal,
\* tax_amount, shipping_cost, discount_amount, tokens_used, tokens_value and
\* total, and the unit_price, quantity and line_total of its items, are after
\* the cancel what they were before.
C19_CancelLeavesMoney ==
    [][Finishes("cancel") =>
          /\ Len(orders') = Len(pre.orders) /\ Len(items') = Len(pre.items)
          /\ \A oid \in 1..Len(orders') :
                 MoneyOf(orders'[oid]) = MoneyOf(pre.orders[oid])
          /\ \A k \in 1..Len(items') :
                 ItemMoneyOf(items'[k]) = ItemMoneyOf(pre.items[k])]_vars

\* an order of 60.00 was cancelled, its stock is released and its total stands
C19_Witness ==
    /\ AllIdle
    /\ resp["r1"].kind = "cancel" /\ resp["r1"].code = 200
    /\ orders[1].status = "cancelled" /\ pre.orders[1].status # "cancelled"
    /\ orders[1].subtotal = 6000 /\ orders[1].total = 7140
    /\ products[2].stock_quantity = pre.products[2].stock_quantity + 2

\* the price a product sells at: its sale price when it has one below the price
SellablePrice(p) ==
    IF p.sale_price # 0 /\ p.sale_price < p.price THEN p.sale_price ELSE p.price

\* what an order item and an order keep of the products at order time
ItemSnapshot(it) == <<it.unit_price, it.product_name, it.product_sku, it.line_total>>

OrderSums(o) == <<o.subtotal, o.total>>

\* C20: an order item is a snapshot: its unit_price is the product's current
\* sellable price at the moment the order is created (with the product's name
\* and SKU of that moment), and a later change of the product's price,
\* sale_price, name or SKU changes neither the item's unit_price, product_name,
\* product_sku and line_total nor the order's subtotal and total.
C20_ItemIsSnapshot ==
    [][/\ (Finishes("create") /\ resp'["r1"].code = 201) =>
              \A k \in (Len(pre.items) + 1)..Len(items') :
                  LET p == pre.products[items'[k].product] IN
                  /\ items'[k].unit_price = SellablePrice(p)
                  /\ items'[k].product_name = p.name
                  /\ items'[k].product_sku = p.sku
       /\ Finishes("product_update") =>
              /\ Len(items') = Len(pre.items) /\ Len(orders') = Len(pre.orders)
              /\ \A k \in 1..Len(items') :
                     ItemSnapshot(items'[k]) = ItemSnapshot(pre.items[k])
              /\ \A oid \in 1..Len(orders') :
                     OrderSums(orders'[oid]) = OrderSums(pre.orders[oid])]_vars

\* product 1 was ordered at its sale price 10.00 under its name; then its price
\* was set to 2.50, and the item and the order stand as they were
C20_Witness ==
    /\ AllIdle
    /\ resp["r1"].kind = "product_update" /\ resp["r1"].code = 200
    /\ products[1].price = 250 /\ pre.products[1].price = 1200
    /\ Len(items) = 1 /\ items[1].product = 1
    /\ ItemSnapshot(items[1]) = <<1000, "Mug", "MUG-1", 1000>>
    /\ OrderSums(orders[1]) = <<1000, 1689>>

\* the lifecycle timestamps of an order
StampsOf(o) == <<o.confirmed_at, o.shipped_at, o.delivered_at, o.cancelled_at>>

\* C21: update_tracking with a tracking number sets tracking_number and
\* tracking_url, appends exactly one history record noting the tracking number
\* added, and leaves the order's status, lifecycle timestamps, monetary fields
\* and every product's stock unchanged; without a tracking number it changes
\* nothing and appends no history record.
C21_TrackingUpdateFrame ==
    [][Finishes("update_tracking") =>
          LET q == req["r1"] IN
          /\ (q.tracking_number # "" /\ resp'["r1"].code = 200) =>
                 /\ orders'[q.oid].tracking_number = q.tracking_number
                 /\ orders'[q.oid].tracking_url = q.tracking_url
                 /\ Len(history') = Len(pre.history) + 1
                 /\ SubSeq(history', 1, Len(pre.history)) = pre.history
                 /\ Newest(history').order = q.oid
                 /\ Newest(history').notes = <<"Tracking number added", q.tracking_number>>
                 /\ orders'[q.oid].status = pre.orders[q.oid].status
                 /\ StampsOf(orders'[q.oid]) = StampsOf(pre.orders[q.oid])
                 /\ MoneyOf(orders'[q.oid]) = MoneyOf(pre.orders[q.oid])
                 /\ products' = pre.products
          /\ q.tracking_number = "" => DB' = pre]_vars

\* the merchant has set a tracking number and URL on a confirmed order
C21_Witness ==
    /\ AllIdle
    /\ resp["r1"].kind = "update_tracking" /\ resp["r1"].code = 200
    /\ orders[1].tracking_number = "TRK-1" /\ pre.orders[1].tracking_number = ""
    /\ orders[1].tracking_url = "https://carrier.example/TRK-1"
    /\ orders[1].status = "confirmed" /\ orders[1].confirmed_at # 0
    /\ Len(history) = Len(pre.history) + 1

\* C22: a product's current sellable price (current_price) is its sale_price
\* when sale_price is set and strictly less than price, and its price in every
\* other case: sale_price unset, equal to price, or greater than price.
C22_CurrentPriceCases ==
    \A p \in Products :
        LET row == products[p] IN
        /\ (row.sale_price # 0 /\ row.sale_price < row.price) =>
               current_price(row) = row.sale_price
        /\ row.sale_price = 0 => current_price(row) = row.price
        /\ row.sale_price = row.price => current_price(row) = row.price
        /\ row.sale_price > row.price => current_price(row) = row.price

\* the price of product 1 was set to 2.50, below its sale price 10.00, and it
\* was then sold at 2.50; product 2, without a sale price, was sold at 25.00
C22_Witness ==
    /\ AllIdle
    /\ products[1].sale_price = 1000 /\ products[1].price = 250
    /\ products[2].sale_price = 0 /\ products[2].price = 2500
    /\ Len(items) = 2
    /\ items[1].product = 1 /\ items[1].unit_price = 250
    /\ items[2].product = 2 /\ items[2].unit_price = 2500

\* t is x/y rounded to the nearest integer (x >= 0, y > 0)
Nearest(t, x, y) == 2 * (t * y - x) <= y /\ 2 * (x - t * y) <= y

\* C23: the tax_amount of each order item is extracted from the tax-inclusive
\* line_total as line_total x (tax_rate/100) / (1 + tax_rate/100), with the
\* default tax_rate 19, stored as a currency value with 2 decimal places; for
\* unit_price 11.90 and quantity 1 it is 1.90 of the line_total 11.90.
C23_ItemTaxExtracted ==
    \A k \in 1..Len(items) :
        /\ items[k].tax_rate = 19
        /\ Nearest(items[k].tax_amount, items[k].line_total * 19, 119)
        /\ (items[k].unit_price = 1190 /\ items[k].quantity = 1) =>
               (items[k].line_total = 1190 /\ items[k].tax_amount = 190)

\* product 2 was ordered once at 11.90 (tax 1.90), product 1 at 10.00 (tax 1.60)
C23_Witness ==
    /\ AllIdle
    /\ \E k \in 1..Len(items) :
           /\ items[k].unit_price = 1190 /\ items[k].quantity = 1
           /\ items[k].line_total = 1190 /\ items[k].tax_amount = 190
    /\ \E k \in 1..Len(items) :
           items[k].line_total = 1000 /\ items[k].tax_amount = 160

\* C24: OrderStatusHistory is append-only: every operation on an order (create,
\* update_status, update_tracking, cancel) only adds records, so the history
\* before a step is a prefix of the history after it, and no record's status,
\* notes or actor is changed or removed.
C24_HistoryAppendOnly ==
    [][/\ Len(history') >= Len(history)
       /\ SubSeq(history', 1, Len(history)) = history]_vars

\* an order was placed, confirmed, given a tracking number and cancelled
C24_Witness ==
    /\ AllIdle
    /\ Len(history) = 4
    /\ history[1].notes = <<"Order placed">>
    /\ history[2].status = "confirmed"
    /\ Head(history[3].notes) = "Tracking number added"
    /\ Head(history[4].notes) = "Order cancelled"

\* the request q comes from somebody who may not act on the order it names:
\* update_status and update_tracking from anybody but the merchant of the
\* order's shop, cancel from anybody but the order's customer and that merchant
Unauthorized(q) ==
    /\ q.oid \in 1..Len(pre.orders)
    /\ LET o == pre.orders[q.oid] IN
       IF q.kind = "cancel" THEN q.user \notin {o.customer, ShopMerchant(o.shop)}
       ELSE q.user # ShopMerchant(o.shop)

\* C25: unauthorized actors mutate nothing: an update_status or update_tracking
\* request of a user who is not the merchant of the order's shop, and a cancel
\* request of a user who is neither the order's customer nor that merchant, is
\* refused and leaves the order's status, timestamps and tracking fields, its
\* history and the stock of every product as they were.
C25_UnauthorizedMutatesNothing ==
    [][\A kind \in {"update_status", "update_tracking", "cancel"} :
           (Finishes(kind) /\ Unauthorized(req["r1"])) =>
               /\ resp'["r1"].code \in {403, 404}
               /\ orders' = pre.orders
               /\ history' = pre.history
               /\ products' = pre.products]_vars

\* a pending order of shop 2 exists and a cancel request on it was answered
\* 404: it came from a user who is not its customer and not mallory
C25_Witness ==
    /\ AllIdle
    /\ Len(orders) = 1 /\ orders[1].shop = 2 /\ orders[1].status = "pending"
    /\ resp["r1"].kind = "cancel" /\ resp["r1"].code = 404
    /\ DB = pre

\* the item rows whose order is not cancelled
LiveItems(orderRows, itemRows) ==
    SelectSeq(itemRows, LAMBDA it : orderRows[it.order].status # "cancelled")

\* C26: stock is held exactly by the live orders: while no request is under
\* way, the stock_quantity of every product equals its initial stock minus the
\* quantities of its order items whose order is not cancelled, whichever
\* operation put the order into cancelled.
C26_StockHeldByLiveOrders ==
    AllIdle =>
        \A p \in Products :
            products[p].stock_quantity
                = InitProducts[p].stock_quantity - ItemQuantity(LiveItems(orders, items), p)

\* the number of lines of an item list that name product p
LinesOf(its, p) == Cardinality({k \in 1..Len(its) : its[k].product_id = p})

\* C27: a create-order request whose item list names a product more than once
\* is accepted only if the sum of the quantities of those lines is at most the
\* product's stock_quantity.
C27_CumulativeStockCheck ==
    [][(Finishes("create") /\ resp'["r1"].code = 201) =>
           \A p \in Products :
               LinesOf(req["r1"].items, p) > 1 =>
                   OrderedQuantity(req["r1"].items, p) <= pre.products[p].stock_quantity]_vars

\* the item rows whose order is cancelled
CancelledItems(orderRows, itemRows) ==
    SelectSeq(itemRows, LAMBDA it : orderRows[it.order].status = "cancelled")

\* what has been added back to the stock of product p: its stock above the
\* initial stock less everything ordered
AddedBack(p) ==
    products[p].stock_quantity - (InitProducts[p].stock_quantity - ItemQuantity(items, p))

\* C28: if two cancel requests for the same pending or confirmed order run
\* concurrently, the quantities of the order's items are added back to the
\* stock exactly once: with the orders placed one after another, the stock
\* added back to a product never exceeds the quantity of its cancelled items.
C28_ConcurrentCancelsReleaseOnce ==
    (\A r \in Requests : req[r].kind # "create") =>
        \A p \in Products : AddedBack(p) <= ItemQuantity(CancelledItems(orders, items), p)

\* C29: for every product the sum stock_quantity + sales_count is left
\* unchanged by order creation and by cancel, under any sequence and any
\* interleaving of those requests.
C29_StockPlusSalesConstant ==
    \A p \in Products :
        products[p].stock_quantity + products[p].sales_count
            = InitProducts[p].stock_quantity + InitProducts[p].sales_count

\* two orders took the one unit of product 1 at the same time (one of the two
\* writes was lost), and the first of them was cancelled
C29_Witness ==
    /\ AllIdle
    /\ Len(orders) = 2 /\ ItemQuantity(items, 1) = 2
    /\ orders[1].status = "cancelled" /\ orders[2].status = "pending"
    /\ products[1].stock_quantity = 1 /\ products[1].sales_count = 0

\* C30: every OrderItem of an order references a product that belongs to the
\* order's shop: the order's shop is the shop of its first item's product, and
\* every other item of the order is a product of that same shop.
C30_ItemsOfTheOrdersShop ==
    \A k \in 1..Len(items) : products[items[k].product].shop = orders[items[k].order].shop

====
